---- MODULE Spec2Model ----
(***************************************************************************)
(* Request lifecycle of the FTL service (ftl/src/service.rs), with the     *)
(* method classifier (ftl/src/method.rs) and the error taxonomy            *)
(* (ftl/src/error.rs).  One request is followed from Service::call through *)
(* parse_request, the handler invocation and the final response.           *)
(*                                                                         *)
(* Bytes are integers 0..255.  A Rust &str / String that holds request     *)
(* data is the sequence of its UTF-8 bytes; Option<T> is <<>> (None) or    *)
(* <<x>> (Some(x)).                                                        *)
(***************************************************************************)
EXTENDS Integers, Sequences, FiniteSets, TLC

\* ------------------------------------------------------------------ bounds
\* Longest request body the transport sends (besides the fixture Hello).
MaxBody == 2
\* Largest configured max_request_length.
MaxLimit == 2
\* Requests the service processes at the same time.
MaxRequests == 2
\* Most clones made of one service.
MaxClones == 2

\* --------------------------------------------------------------- Option<T>
None == <<>>
Some(x) == <<x>>
IsSome(o) == o # <<>>
Unwrap(o) == o[1]

\* ------------------------------------------------------------- method.rs
\* Transport method tokens (http::Method); TRACE stands for every token
\* outside the supported set.
Methods == {"GET", "POST", "PUT", "DELETE", "HEAD", "OPTIONS", "PATCH", "TRACE"}

\* Mutant of SupportedMethodIter: the variants in alphabetical order.
SupportedMethodSorted ==
    <<"Delete", "Get", "Head", "Options", "Patch", "Post", "Put">>

\* enum SupportedMethod, in declaration order (strum::EnumIter order).
SupportedMethodIter == <<"Get", "Post", "Put", "Delete", "Head", "Options", "Patch">>

\* strum::Display with serialize_all = "UPPERCASE".
Display(m) ==
    CASE m = "Get" -> "GET"
      [] m = "Post" -> "POST"
      [] m = "Put" -> "PUT"
      [] m = "Delete" -> "DELETE"
      [] m = "Head" -> "HEAD"
      [] m = "Options" -> "OPTIONS"
      [] m = "Patch" -> "PATCH"

ALLOW_HEADER == "GET, POST, PUT, DELETE, HEAD, OPTIONS, PATCH"

\* SupportedMethod::new: Some(variant) for Ok, None for Err(UnsupportedMethod).
SupportedMethodNew(method) ==
    CASE method = "GET" -> Some("Get")
      [] method = "POST" -> Some("Post")
      [] method = "PUT" -> Some("Put")
      [] method = "DELETE" -> Some("Delete")
      [] method = "HEAD" -> Some("Head")
      [] method = "OPTIONS" -> Some("Options")
      [] method = "PATCH" -> Some("Patch")
      [] OTHER -> None

request_has_body(self) == self \in {"Get", "Delete", "Head", "Options"}

response_has_body(self) == self = "Head"

\* -------------------------------------------------------------- error.rs
NotFound == [kind |-> "NotFound"]
MethodNotAllowed(allowed) == [kind |-> "MethodNotAllowed", allowed |-> allowed]
RequestTimeout == [kind |-> "RequestTimeout"]
LengthRequired == [kind |-> "LengthRequired"]
PayloadTooLarge == [kind |-> "PayloadTooLarge"]
UnsupportedMediaType == [kind |-> "UnsupportedMediaType"]
BodyNotUtf8 == [kind |-> "BodyNotUtf8"]
\* BaseError::Other(DynError { status, error }); the cause is kept as its
\* display string.
Other(st, cause) == [kind |-> "Other", status |-> st, error |-> cause]

INTERNAL_SERVER_ERROR == 500

\* Mutant of status: the open variant always answers 500.
status_other_is_500(e) ==
    CASE e.kind = "NotFound" -> 404
      [] e.kind = "MethodNotAllowed" -> 405
      [] e.kind = "RequestTimeout" -> 408
      [] e.kind = "LengthRequired" -> 411
      [] e.kind = "PayloadTooLarge" -> 413
      [] e.kind = "UnsupportedMediaType" -> 415
      [] e.kind = "BodyNotUtf8" -> 400
      [] e.kind = "InvalidParameter" -> 400
      [] e.kind = "Other" -> INTERNAL_SERVER_ERROR

\* impl Error for BaseError :: status
status(e) ==
    CASE e.kind = "NotFound" -> 404
      [] e.kind = "MethodNotAllowed" -> 405
      [] e.kind = "RequestTimeout" -> 408
      [] e.kind = "LengthRequired" -> 411
      [] e.kind = "PayloadTooLarge" -> 413
      [] e.kind = "UnsupportedMediaType" -> 415
      [] e.kind = "BodyNotUtf8" -> 400
      [] e.kind = "InvalidParameter" -> 400
      [] e.kind = "Other" -> e.status

\* Result<&str, Box<BaseError>>
Ok(text) == [ok |-> TRUE, text |-> text]
Err(e) == [ok |-> FALSE, err |-> e]

\* ------------------------------------------------- inputs of the transport
\* Bytes a request body is made of: 'h', the two bytes of U+00E9, and the
\* lead byte of an overlong two-byte form.
BodyBytes == {104, 195, 169, 192}
Hello == <<104, 101, 108, 108, 111>>

RECURSIVE SeqsUpTo(_, _)
SeqsUpTo(S, n) ==
    IF n = 0 THEN {<<>>}
    ELSE LET shorter == SeqsUpTo(S, n - 1)
         IN shorter \cup {Append(q, b) : q \in shorter, b \in S}

BodyData == SeqsUpTo(BodyBytes, MaxBody) \cup {Hello}

\* hyper::Body as the transport hands it over: the bytes it will deliver,
\* one frame per byte, and what follows the last frame: the end of the
\* stream, an I/O failure, or nothing at all (the source stalls).
Bodies == [data : BodyData, fin : {"end", "error", "stall"}]

\* Content-Length header values (HeaderValue bytes): "", "a", an opaque
\* byte, "-1", "+2", "1", "2", "5"; None when the header is absent.
ContentLengths ==
    {None} \cup {Some(v) : v \in {<<>>, <<97>>, <<255>>, <<45, 49>>, <<43, 50>>,
                                  <<49>>, <<50>>, <<53>>}}

\* Config as Builder can build it (service.rs:86-95).
Configs ==
    [max_request_length : {None} \cup {Some(n) : n \in 0..MaxLimit},
     request_read_timeout : {None, Some("T")}]

\* What a handler may answer: Response<String> or an unexpected BoxError.
Response(st, hs, b) == [status |-> st, headers |-> hs, body |-> b]
HandlerResponses ==
    {Response(200, {}, ""), Response(200, {}, "ok"),
     Response(405, {<<"allow", ALLOW_HEADER>>}, "ok"), Response(500, {}, "")}
HandlerResults ==
    {[ok |-> TRUE, resp |-> r] : r \in HandlerResponses}
        \cup {[ok |-> FALSE, error |-> "handler fault"]}

\* ------------------------------------------- pure steps of parse_request
\* HeaderValue::to_str: Some(text) iff every byte is visible ASCII or tab.
to_str(v) ==
    IF \A i \in 1..Len(v) : (v[i] >= 32 /\ v[i] < 127) \/ v[i] = 9
    THEN Some(v) ELSE None

IsDigit(b) == b >= 48 /\ b <= 57

RECURSIVE DigitsValue(_)
DigitsValue(s) ==
    IF s = <<>> THEN 0
    ELSE 10 * DigitsValue(SubSeq(s, 1, Len(s) - 1)) + (s[Len(s)] - 48)

\* str::parse::<usize>: an optional '+', then one or more decimal digits.
\* (Values beyond usize::MAX fail too; no header of this model is that long.)
parse(s) ==
    LET digits == IF s # <<>> /\ s[1] = 43 THEN Tail(s) ELSE s
    IN IF digits # <<>> /\ \A i \in 1..Len(digits) : IsDigit(digits[i])
       THEN Some(DigitsValue(digits)) ELSE None

\* Mutant of content_length_of: an absent header counts as a length of 0.
content_length_of_or_zero(header) ==
    IF ~IsSome(header) THEN Some(0)
    ELSE LET text == to_str(Unwrap(header))
         IN IF ~IsSome(text) THEN None ELSE parse(Unwrap(text))

\* service.rs:198-205: Some(content_length), or None for LengthRequired.
content_length_of(header) ==
    IF ~IsSome(header) THEN None
    ELSE LET text == to_str(Unwrap(header))
         IN IF ~IsSome(text) THEN None ELSE parse(Unwrap(text))

\* Mutant of exceeds_max: a declared length equal to the maximum is refused.
exceeds_max_or_equal(content_length, conf) ==
    /\ IsSome(conf.max_request_length)
    /\ content_length >= Unwrap(conf.max_request_length)

\* Mutant of exceeds_max: the comparison is the wrong way round.
exceeds_max_inverted(content_length, conf) ==
    /\ IsSome(conf.max_request_length)
    /\ content_length < Unwrap(conf.max_request_length)

\* service.rs:207-211
exceeds_max(content_length, conf) ==
    /\ IsSome(conf.max_request_length)
    /\ content_length > Unwrap(conf.max_request_length)

IsCont(b) == b >= 128 /\ b <= 191

\* Mutant of from_utf8_ok: the bytes are taken as text unchecked.
from_utf8_unchecked(bs) == TRUE

\* std::str::from_utf8 succeeds (well-formed UTF-8, RFC 3629).
RECURSIVE from_utf8_ok(_)
from_utf8_ok(bs) ==
    IF bs = <<>> THEN TRUE
    ELSE LET b == bs[1]
             n == Len(bs)
             rest(k) == SubSeq(bs, k + 1, n)
         IN CASE b < 128 -> from_utf8_ok(rest(1))
              [] b >= 194 /\ b <= 223 ->
                    n >= 2 /\ IsCont(bs[2]) /\ from_utf8_ok(rest(2))
              [] b >= 224 /\ b <= 239 ->
                    /\ n >= 3
                    /\ IsCont(bs[2]) /\ IsCont(bs[3])
                    /\ (b = 224 => bs[2] >= 160)
                    /\ (b = 237 => bs[2] <= 159)
                    /\ from_utf8_ok(rest(3))
              [] b >= 240 /\ b <= 244 ->
                    /\ n >= 4
                    /\ IsCont(bs[2]) /\ IsCont(bs[3]) /\ IsCont(bs[4])
                    /\ (b = 240 => bs[2] >= 144)
                    /\ (b = 244 => bs[2] <= 143)
                    /\ from_utf8_ok(rest(4))
              [] OTHER -> FALSE

\* service.rs:232-234
validate(bytes) == IF from_utf8_ok(bytes) THEN Ok(bytes) ELSE Err(BodyNotUtf8)

\* impl From<String> for OutBuffer
OutBufferFrom(s) == [inner |-> Some(s)]

\* OutBuffer::empty (service.rs:257-261)
OutBufferEmpty == OutBufferFrom("")

\* Strings an OutBuffer is made from: "", "ok" and "é".
OutStrings == {"", "ok", "é"}

\* String::into_bytes: the UTF-8 bytes of the text.
into_bytes(v) ==
    CASE v = "" -> <<>>
      [] v = "ok" -> <<111, 107>>
      [] v = "é" -> <<195, 169>>

\* Mutant of poll_data: the payload is handed out and kept.
poll_data_keeps(self) ==
    [ret |-> IF IsSome(self.inner)
             THEN Some(into_bytes(Unwrap(self.inner))) ELSE None,
     self |-> self]

\* HttpBody::poll_data (service.rs:273-278): self.inner.take(), mapped to
\* its bytes.  `ret` is the Option inside Poll::Ready, `self` the buffer
\* afterwards.
poll_data(self) ==
    [ret |-> IF IsSome(self.inner)
             THEN Some(into_bytes(Unwrap(self.inner))) ELSE None,
     self |-> [inner |-> None]]

\* Mutant of poll_trailers: the query drains the buffer.
poll_trailers_drains(self) == [ret |-> None, self |-> [inner |-> None]]

\* HttpBody::poll_trailers (service.rs:280-285): Ok(None), self untouched.
poll_trailers(self) == [ret |-> None, self |-> self]

\* HttpBody::is_end_stream (service.rs:287-289)
is_end_stream(self) == self.inner = None

\* ------------------------------------------------------------- router.rs
\* struct Router { app, handler }
Router(app, handler) == [app |-> app, handler |-> handler]

\* The generated handler a router starts from: a plain fn(app, request).
BaseHandler == <<>>

\* Middleware values given to Router::with.  Each is a FnOnce(H) -> H2 whose
\* result calls the handler it was given once and passes its answer back;
\* "append_header" adds a fixed header to the response on the way.
Middlewares == {"m1", "m2", "append_header"}
FixedHeader == <<"x-ftl", "on">>

\* middleware(handler): the closure that holds the handler it wraps.
Apply(middleware, handler) == <<middleware, handler>>

\* Mutant of with: the middleware is put next to the original handler,
\* inside the layers already applied.
RECURSIVE ApplyInnermost(_, _)
ApplyInnermost(middleware, handler) ==
    IF handler = BaseHandler THEN <<middleware, handler>>
    ELSE <<handler[1], ApplyInnermost(middleware, handler[2])>>

with_innermost(self, middleware) ==
    Router(self.app, ApplyInnermost(middleware, self.handler))

\* Router::with (router.rs:52-68)
with(self, middleware) == Router(self.app, Apply(middleware, self.handler))

\* What a layer does to the answer of the handler it wraps.
after(middleware, ret) ==
    IF middleware = "append_header" /\ ret.ok
    THEN [ok |-> TRUE,
          resp |-> [ret.resp EXCEPT !.headers = @ \cup {FixedHeader}]]
    ELSE ret

Event(ev, by) == [ev |-> ev, by |-> by]

\* (handler)(app, request): the events of the invocation in order, the
\* app the original handler was given, and the answer; `r` is what the
\* original handler answers.
RECURSIVE invoke(_, _, _)
invoke(handler, app, r) ==
    IF handler = BaseHandler
    THEN [trace |-> <<Event("handler", "base")>>, app |-> app, ret |-> r]
    ELSE LET inner == invoke(handler[2], app, r)
         IN [trace |-> <<Event("enter", handler[1])>> \o inner.trace
                          \o <<Event("exit", handler[1])>>,
             app |-> inner.app,
             ret |-> after(handler[1], inner.ret)]

\* Mutant of router_call: the handler is given another app.
router_call_other_app(self, r) == invoke(self.handler, "nobody", r)

\* Router::call (router.rs:70-77)
router_call(self, r) == invoke(self.handler, self.app, r)

\* ------------------------------------------------------------------ state
VARIABLES
    config,         \* Arc<Config> of the service
    pc,             \* position of the request's future
    parts,          \* request::Parts: method and Content-Length header
    body,           \* the request's hyper::Body
    method,         \* Option<SupportedMethod> classified by parse_request
    content_length, \* Option<usize> parsed by parse_request
    timer,          \* tokio timeout of the read: "none", "armed", "elapsed"
    acc,            \* bytes hyper::body::to_bytes has collected so far
    reads,          \* poll_data calls made on the body stream
    buf,            \* `buf` of Service::call, the request's own buffer
    slot,           \* Option<Result<&str, Box<BaseError>>>: parse_request's result
    handler_calls,  \* invocations of router.handler for this request
    handler_ret,    \* Option: what the handler's future resolved to
    result          \* Option: what the future of Service::call resolved to

\* The error taxonomy (error.rs) is exercised on values of its own.
VARIABLES
    err,            \* Option<BaseError>: an error value that was constructed
    err_status,     \* Option<StatusCode>: what status() returned for it
    wire,           \* Option<DynErrorSerde>: a wire envelope {status, error}
    decoded,        \* Option<Result<DynError, _>>: what deserializing it gave
    schema          \* Option: an error type and what its error_schema() gave

service_vars ==
    <<config, pc, parts, body, method, content_length, timer, acc, reads, buf,
      slot, handler_calls, handler_ret, result>>

\* A router under composition (router.rs) and a dispatch made on it.
VARIABLES
    router,         \* Router { app, handler }
    built,          \* history: the app it was made with, the middlewares given
                    \* to `with` in order
    dispatched      \* Option: events, app and answer of the last Router::call

\* An OutBuffer in the hands of the transport (service.rs:257-290).
VARIABLES
    out_buffer,     \* Option<OutBuffer>
    payload,        \* history: the String it was made from
    log             \* history: the HttpBody calls made on it, with results

\* Requests in flight at the same time: one future of Service::call each.
VARIABLES
    futures,        \* per request: the state its future owns
    bufs            \* memory cells that hold the `buf` of the futures

\* The Arc-shared values of a service and the handles that refer to them.
VARIABLES
    heap,           \* Arc allocations: address -> value
    services,       \* the Service values alive: the built one and its clones
    invocations     \* history: what each handler invocation was handed

taxonomy_vars == <<err, err_status, wire, decoded, schema>>

conc_vars == <<futures, bufs>>

clone_vars == <<heap, services, invocations>>

router_vars == <<router, built, dispatched>>

out_vars == <<out_buffer, payload, log>>

\* What a request's steps never touch.
aux == <<taxonomy_vars, router_vars, out_vars, conc_vars, clone_vars>>

vars == <<service_vars, aux>>

\* No error value is under examination.
TaxonomyIdle ==
    /\ err = None
    /\ err_status = None
    /\ wire = None
    /\ decoded = None
    /\ schema = None

\* Router { app, handler } as generated: no middleware, no dispatch yet.
RouterIdle ==
    /\ router = Router("app", BaseHandler)
    /\ built = [app |-> "app", middlewares |-> <<>>]
    /\ dispatched = None

\* No response body is being written out.
OutIdle ==
    /\ out_buffer = None
    /\ payload = ""
    /\ log = <<>>

\* The requests the service may have in flight, and an idle future.
Reqs == 1..MaxRequests
NoFuture ==
    [pc |-> "idle",
     parts |-> [method |-> "GET", content_length |-> None],
     body |-> [data |-> <<>>, fin |-> "end"],
     method |-> None, content_length |-> None, timer |-> "none",
     acc |-> <<>>, reads |-> 0, slot |-> None,
     handler_ret |-> None, result |-> None]

\* No request is in flight.
ConcurrentIdle ==
    /\ futures = [i \in Reqs |-> NoFuture]
    /\ bufs = [i \in Reqs |-> <<>>]

\* No service has been built on Arc-shared values.
CloneIdle ==
    /\ heap = <<>>
    /\ services = <<>>
    /\ invocations = {}

\* Builder::build: a service with its configuration, no request yet.
Init ==
    /\ config \in Configs
    /\ pc = "idle"
    /\ parts = [method |-> "GET", content_length |-> None]
    /\ body = [data |-> <<>>, fin |-> "end"]
    /\ method = None
    /\ content_length = None
    /\ timer = "none"
    /\ acc = <<>>
    /\ reads = 0
    /\ buf = <<>>
    /\ slot = None
    /\ handler_calls = 0
    /\ handler_ret = None
    /\ result = None
    /\ TaxonomyIdle
    /\ RouterIdle
    /\ OutIdle
    /\ ConcurrentIdle
    /\ CloneIdle

\* parse_request returns `r` (a `return` or a `?`): control is back in the
\* async block of Service::call, about to invoke the handler.
Return(r) ==
    /\ slot' = Some(r)
    /\ pc' = "dispatch"

\* Service::call (service.rs:162-169): a request arrives; the future gets
\* its own parts, body and empty buffer, and enters parse_request.
Call(m, h, b) ==
    /\ pc = "idle"
    /\ parts' = [method |-> m, content_length |-> h]
    /\ body' = b
    /\ buf' = <<>>
    /\ pc' = "method_gate"
    /\ UNCHANGED <<config, method, content_length, timer, acc, reads, slot,
                   handler_calls, handler_ret, result>>
    /\ UNCHANGED aux

\* The transport hands the service some request.
Receive ==
    /\ pc = "idle"
    /\ \E m \in Methods, h \in ContentLengths, b \in Bodies : Call(m, h, b)

\* Mutant of MethodGate: the method is classified only after the length
\* checks, so an unsupported method is taken on as a body-carrying one.
MethodGateDeferred ==
    /\ pc = "method_gate"
    /\ LET m == SupportedMethodNew(parts.method)
       IN IF IsSome(m)
          THEN /\ method' = m
               /\ pc' = "body_exemption"
          ELSE /\ method' = Some("Get")
               /\ pc' = "length"
    /\ UNCHANGED <<config, parts, body, content_length, timer, acc, reads, buf,
                   slot, handler_calls, handler_ret, result>>
    /\ UNCHANGED aux

\* service.rs:183-190
MethodGate ==
    /\ pc = "method_gate"
    /\ LET m == SupportedMethodNew(parts.method)
       IN IF IsSome(m)
          THEN /\ method' = m
               /\ pc' = "body_exemption"
               /\ UNCHANGED slot
          ELSE /\ Return(Err(MethodNotAllowed(SupportedMethodIter)))
               /\ UNCHANGED method
    /\ UNCHANGED <<config, parts, body, content_length, timer, acc, reads, buf,
                   handler_calls, handler_ret, result>>
    /\ UNCHANGED aux

\* service.rs:192-194
BodyExemption ==
    /\ pc = "body_exemption"
    /\ IF ~request_has_body(Unwrap(method))
       THEN Return(Ok(<<>>))
       ELSE pc' = "length" /\ UNCHANGED slot
    /\ UNCHANGED <<config, parts, body, method, content_length, timer, acc,
                   reads, buf, handler_calls, handler_ret, result>>
    /\ UNCHANGED aux

\* service.rs:196-205
ContentLength ==
    /\ pc = "length"
    /\ LET n == content_length_of(parts.content_length)
       IN IF IsSome(n)
          THEN /\ content_length' = n
               /\ pc' = "max_length"
               /\ UNCHANGED slot
          ELSE /\ Return(Err(LengthRequired))
               /\ UNCHANGED content_length
    /\ UNCHANGED <<config, parts, body, method, timer, acc, reads, buf,
                   handler_calls, handler_ret, result>>
    /\ UNCHANGED aux

\* service.rs:207-220: the size check, then the read is started, under a
\* timeout if one is configured.
MaxLength ==
    /\ pc = "max_length"
    /\ IF exceeds_max(Unwrap(content_length), config)
       THEN Return(Err(PayloadTooLarge)) /\ UNCHANGED timer
       ELSE /\ pc' = "read"
            /\ timer' = IF IsSome(config.request_read_timeout)
                        THEN "armed" ELSE "none"
            /\ UNCHANGED slot
    /\ UNCHANGED <<config, parts, body, method, content_length, acc, reads,
                   buf, handler_calls, handler_ret, result>>
    /\ UNCHANGED aux

\* hyper::body::to_bytes polls the body and gets the next frame
\* (service.rs:215, 219).
ReadFrame ==
    /\ pc = "read"
    /\ Len(acc) < Len(body.data)
    /\ acc' = Append(acc, body.data[Len(acc) + 1])
    /\ reads' = reads + 1
    /\ UNCHANGED <<config, pc, parts, body, method, content_length, timer, buf,
                   slot, handler_calls, handler_ret, result>>
    /\ UNCHANGED aux

\* The poll finds the end of the stream: to_bytes resolves to the collected
\* bytes, which are moved into the request's buffer (service.rs:225).
ReadEnd ==
    /\ pc = "read"
    /\ Len(acc) = Len(body.data)
    /\ body.fin = "end"
    /\ reads' = reads + 1
    /\ buf' = acc
    /\ acc' = <<>>
    /\ timer' = "none"
    /\ pc' = "utf8"
    /\ UNCHANGED <<config, parts, body, method, content_length, slot,
                   handler_calls, handler_ret, result>>
    /\ UNCHANGED aux

\* Mutant of ReadError: the hyper error leaves the service call as it is,
\* past the handler.
ReadErrorPropagates ==
    /\ pc = "read"
    /\ Len(acc) = Len(body.data)
    /\ body.fin = "error"
    /\ reads' = reads + 1
    /\ acc' = <<>>
    /\ timer' = "none"
    /\ result' = Some([ok |-> FALSE, error |-> "io error"])
    /\ pc' = "done"
    /\ UNCHANGED <<config, parts, body, method, content_length, buf, slot,
                   handler_calls, handler_ret>>
    /\ UNCHANGED aux

\* The poll fails: to_bytes resolves to the hyper error, which becomes
\* BaseError::Other with status 500 (service.rs:225-230).
ReadError ==
    /\ pc = "read"
    /\ Len(acc) = Len(body.data)
    /\ body.fin = "error"
    /\ reads' = reads + 1
    /\ acc' = <<>>
    /\ timer' = "none"
    /\ Return(Err(Other(INTERNAL_SERVER_ERROR, Some("io error"))))
    /\ UNCHANGED <<config, parts, body, method, content_length, buf,
                   handler_calls, handler_ret, result>>
    /\ UNCHANGED aux

\* Mutant of buf_after_timeout: the read fills the request's buffer as it
\* goes, so a dropped read leaves its bytes there.
buf_keeps_partial(collected, buffer) == collected

\* The bytes the request's buffer holds once the timeout has dropped the
\* read: `buf` is assigned only after the read, at service.rs:225.
buf_after_timeout(collected, buffer) == buffer

\* Mutant of Timeout: the timer never fires.
TimerNeverFires == FALSE /\ UNCHANGED vars

\* tokio::time::timeout elapses before to_bytes resolves: the read future
\* is dropped with what it collected (service.rs:214-217).
Timeout ==
    /\ pc = "read"
    /\ timer = "armed"
    /\ timer' = "elapsed"
    /\ buf' = buf_after_timeout(acc, buf)
    /\ acc' = <<>>
    /\ Return(Err(RequestTimeout))
    /\ UNCHANGED <<config, parts, body, method, content_length, reads,
                   handler_calls, handler_ret, result>>
    /\ UNCHANGED aux

\* service.rs:232-234
Utf8 ==
    /\ pc = "utf8"
    /\ Return(validate(buf))
    /\ UNCHANGED <<config, parts, body, method, content_length, timer, acc,
                   reads, buf, handler_calls, handler_ret, result>>
    /\ UNCHANGED aux

\* Mutant of Dispatch: a failed parse is answered by the service itself.
DispatchShortCircuit ==
    /\ pc = "dispatch"
    /\ IF Unwrap(slot).ok
       THEN /\ handler_calls' = handler_calls + 1
            /\ pc' = "handler"
            /\ UNCHANGED result
       ELSE /\ result' = Some([ok |-> TRUE,
                               resp |-> [status |-> status(Unwrap(slot).err),
                                         headers |-> {},
                                         body |-> [inner |-> None]]])
            /\ pc' = "done"
            /\ UNCHANGED handler_calls
    /\ UNCHANGED <<config, parts, body, method, content_length, timer, acc,
                   reads, buf, slot, handler_ret>>
    /\ UNCHANGED aux

\* service.rs:170: the handler is invoked with the parts and the body slot.
Dispatch ==
    /\ pc = "dispatch"
    /\ handler_calls' = handler_calls + 1
    /\ pc' = "handler"
    /\ UNCHANGED <<config, parts, body, method, content_length, timer, acc,
                   reads, buf, slot, handler_ret, result>>
    /\ UNCHANGED aux

\* Mutant of encode: a handler fault is answered with an empty 200.
encode_swallows_fault(r) ==
    [ok |-> TRUE,
     resp |-> IF r.ok
              THEN [status |-> r.resp.status,
                    headers |-> r.resp.headers,
                    body |-> OutBufferFrom(r.resp.body)]
              ELSE [status |-> 200, headers |-> {}, body |-> OutBufferFrom("")]]

\* service.rs:170-171: `?` on the handler's result, then
\* Ok(resp.map(From::from)).
encode(r) ==
    IF r.ok
    THEN [ok |-> TRUE,
          resp |-> [status |-> r.resp.status,
                    headers |-> r.resp.headers,
                    body |-> OutBufferFrom(r.resp.body)]]
    ELSE [ok |-> FALSE, error |-> r.error]

\* The future of (router.handler)(router.app, request) resolves, the
\* original handler having answered `r`, and the future of Service::call
\* with it.
HandlerComplete(r) ==
    /\ pc = "handler"
    /\ handler_ret' = Some(invoke(router.handler, router.app, r).ret)
    /\ result' = Some(encode(invoke(router.handler, router.app, r).ret))
    /\ pc' = "done"
    /\ UNCHANGED <<config, parts, body, method, content_length, timer, acc,
                   reads, buf, slot, handler_calls>>
    /\ UNCHANGED aux

\* The caller has taken the result; the resolved future is dropped with
\* everything it owned, and the service waits for the next request.
Release ==
    /\ pc = "done"
    /\ pc' = "idle"
    /\ parts' = [method |-> "GET", content_length |-> None]
    /\ body' = [data |-> <<>>, fin |-> "end"]
    /\ method' = None
    /\ content_length' = None
    /\ timer' = "none"
    /\ acc' = <<>>
    /\ reads' = 0
    /\ buf' = <<>>
    /\ slot' = None
    /\ handler_calls' = 0
    /\ handler_ret' = None
    /\ result' = None
    /\ UNCHANGED config
    /\ UNCHANGED aux

Next ==
    \/ Receive
    \/ MethodGate
    \/ BodyExemption
    \/ ContentLength
    \/ MaxLength
    \/ ReadFrame
    \/ ReadEnd
    \/ ReadError
    \/ Timeout
    \/ Utf8
    \/ Dispatch
    \/ \E r \in HandlerResults : HandlerComplete(r)
    \/ Release

Spec == Init /\ [][Next]_vars

\* What moves a request forward once it has arrived: the executor polls its
\* future, the body stream hands over what it has, the armed timer fires
\* and the handler's future resolves.
Progress ==
    \/ MethodGate
    \/ BodyExemption
    \/ ContentLength
    \/ MaxLength
    \/ ReadFrame
    \/ ReadEnd
    \/ ReadError
    \/ Timeout
    \/ Utf8
    \/ Dispatch
    \/ \E r \in HandlerResults : HandlerComplete(r)

\* A service without limits and one with a maximum and a read timeout.
LiveConfigs ==
    {[max_request_length |-> None, request_read_timeout |-> None],
     [max_request_length |-> Some(1), request_read_timeout |-> Some("T")]}

InitLive == Init /\ config \in LiveConfigs

\* The service under a fair executor, transport, timer and handler.
SpecLive == InitLive /\ [][Next]_vars /\ WF_vars(Progress)

\* ======================================================= error taxonomy
\* The service at rest: built, no request in flight.
ServiceIdle ==
    /\ pc = "idle"
    /\ parts = [method |-> "GET", content_length |-> None]
    /\ body = [data |-> <<>>, fin |-> "end"]
    /\ method = None
    /\ content_length = None
    /\ timer = "none"
    /\ acc = <<>>
    /\ reads = 0
    /\ buf = <<>>
    /\ slot = None
    /\ handler_calls = 0
    /\ handler_ret = None
    /\ result = None

\* struct InvalidParameter { name, value }
InvalidParameterItem(name, value) == [name |-> name, value |-> value]
\* BaseError::InvalidParameter { query, header }
InvalidParameter(query, header) ==
    [kind |-> "InvalidParameter", query |-> query, header |-> header]

\* struct DynError { status, error }
DynError(st, cause) == [status |-> st, error |-> cause]

\* Display of a StatusCode: the number and its canonical reason.
StatusDisplay(st) ==
    CASE st = 100 -> "100 Continue"
      [] st = 200 -> "200 OK"
      [] st = 404 -> "404 Not Found"
      [] st = 418 -> "418 I'm a teapot"
      [] st = 500 -> "500 Internal Server Error"
      [] OTHER -> "<unknown status code>"

\* A cause (BoxError) is a boxed String, a boxed BaseError or a boxed
\* DynError; to_string is its Display.
RECURSIVE to_string(_), DynErrorDisplay(_), BaseErrorDisplay(_)

\* #[error("...")] of BaseError (error.rs:30-50)
BaseErrorDisplay(e) ==
    CASE e.kind = "NotFound" -> "404 Not Found"
      [] e.kind = "MethodNotAllowed" -> "405 Method Not Allowed"
      [] e.kind = "RequestTimeout" -> "408 Request Timeout"
      [] e.kind = "LengthRequired" -> "411 Length Required"
      [] e.kind = "PayloadTooLarge" -> "413 Payload Too Lager"
      [] e.kind = "UnsupportedMediaType" -> "415 Unsupported Media Type"
      [] e.kind = "BodyNotUtf8" -> "Failed to decode request body as UTF-8"
      [] e.kind = "InvalidParameter" -> "Failed to parse request parameters"
      [] e.kind = "Other" ->
            "Other error - " \o DynErrorDisplay(DynError(e.status, e.error))

\* impl fmt::Display for DynError
DynErrorDisplay(d) ==
    IF IsSome(d.error)
    THEN StatusDisplay(d.status) \o " - " \o to_string(Unwrap(d.error))
    ELSE StatusDisplay(d.status)

to_string(cause) ==
    CASE cause.type = "String" -> cause.text
      [] cause.type = "BaseError" -> BaseErrorDisplay(cause.err)
      [] cause.type = "DynError" -> DynErrorDisplay(cause.dyn)

\* From<String> for BoxError
BoxString(text) == [type |-> "String", text |-> text]

\* Causes an application may box into a DynError.
Causes ==
    {BoxString("teapot"), BoxString("Honestly, it's a teapot"),
     [type |-> "BaseError", err |-> PayloadTooLarge],
     [type |-> "DynError", dyn |-> DynError(404, Some(BoxString("gone")))]}

\* Status codes an application may give a DynError.
StatusCodes == {100, 200, 404, 418, 500, 999}

InvalidParameterLists ==
    {<<>>, <<InvalidParameterItem("id", None)>>,
     <<InvalidParameterItem("id", Some("x")), InvalidParameterItem("q", None)>>}

\* Values of BaseError.
ErrorValues ==
    {NotFound, RequestTimeout, LengthRequired, PayloadTooLarge,
     UnsupportedMediaType, BodyNotUtf8}
      \cup {MethodNotAllowed(a) : a \in {<<>>, <<"Get">>, SupportedMethodIter}}
      \cup {InvalidParameter(q, h) :
               q \in InvalidParameterLists, h \in InvalidParameterLists}
      \cup {Other(st, c) :
               st \in StatusCodes, c \in {None} \cup {Some(x) : x \in Causes}}

\* Mutant of serialize: only the status is written.
serialize_status_only(d) == [status |-> d.status, error |-> None]

\* impl Serialize for DynError: the DynErrorSerde it is written as.
serialize(d) ==
    [status |-> d.status,
     error |-> IF IsSome(d.error)
               THEN Some(to_string(Unwrap(d.error))) ELSE None]

\* Mutant of from_u16: the number is taken as a status code unchecked.
from_u16_unchecked(n) == Some(n)

\* StatusCode::from_u16: Some(code) for 100..=999.
from_u16(n) == IF n >= 100 /\ n < 1000 THEN Some(n) ELSE None

\* impl Deserialize for DynError: DynErrorSerde (status: u16) is read
\* first, then the status is validated and the message boxed.
deserialize(w) ==
    IF w.status < 0 \/ w.status > 65535
    THEN [ok |-> FALSE, error |-> "invalid value: expected u16"]
    ELSE IF ~IsSome(from_u16(w.status))
    THEN [ok |-> FALSE, error |-> "invalid status code"]
    ELSE [ok |-> TRUE,
          value |-> DynError(Unwrap(from_u16(w.status)),
                             IF IsSome(w.error)
                             THEN Some(BoxString(Unwrap(w.error))) ELSE None)]

\* impl Schema for String (schema.rs:423-435), for DynError (error.rs:160-198)
StringSchema == [title |-> "String", example |-> "foobar"]
DynErrorSchema ==
    [title |-> "DynError",
     example |-> [status |-> 418, error |-> Some("Honestly, it's a teapot")]]

\* Envelopes that arrive from outside.
Wires ==
    [status : {-1, 0, 99, 100, 101, 200, 418, 599, 600, 999, 1000, 9999,
               65535, 65536},
     error : {None, Some("teapot"), Some("Honestly, it's a teapot")}]

\* The types that implement Error.
ErrorTypes == {"BaseError", "DynError", "String"}

\* impl Error for String :: status
string_status(text) == INTERNAL_SERVER_ERROR

\* Error::error_schema of each type; BaseError's is todo!(), which panics.
error_schema(ty) ==
    CASE ty = "BaseError" -> [ok |-> FALSE, panic |-> "not yet implemented"]
      [] ty = "String" ->
            [ok |-> TRUE, default_schema |-> None,
             schemas |-> {<<INTERNAL_SERVER_ERROR, StringSchema>>}]
      [] ty = "DynError" ->
            [ok |-> TRUE, default_schema |-> Some(DynErrorSchema),
             schemas |-> {}]

\* An error value is constructed.
Construct(e) ==
    /\ err' = Some(e)
    /\ UNCHANGED <<service_vars, router_vars, out_vars, conc_vars,
                   clone_vars,
                   err_status, wire, decoded, schema>>

\* Application code builds some error value.
NewError ==
    /\ err = None /\ wire = None
    /\ \E e \in ErrorValues : Construct(e)

\* Error::status is called on the value.
Status ==
    /\ IsSome(err) /\ err_status = None
    /\ err_status' = Some(status(Unwrap(err)))
    /\ UNCHANGED <<service_vars, router_vars, out_vars, conc_vars,
                   clone_vars,
                   err, wire, decoded, schema>>

\* A type-erased error is serialized.
Serialize ==
    /\ IsSome(err) /\ Unwrap(err).kind = "Other" /\ wire = None
    /\ wire' = Some(serialize(DynError(Unwrap(err).status, Unwrap(err).error)))
    /\ UNCHANGED <<service_vars, router_vars, out_vars, conc_vars,
                   clone_vars,
                   err, err_status, decoded, schema>>

\* An envelope arrives from outside.
Inbound ==
    /\ err = None /\ wire = None
    /\ \E w \in Wires : wire' = Some(w)
    /\ UNCHANGED <<service_vars, router_vars, out_vars, conc_vars,
                   clone_vars,
                   err, err_status, decoded, schema>>

\* The envelope is deserialized.
Deserialize ==
    /\ IsSome(wire) /\ decoded = None
    /\ decoded' = Some(deserialize(Unwrap(wire)))
    /\ UNCHANGED <<service_vars, router_vars, out_vars, conc_vars,
                   clone_vars,
                   err, err_status, wire, schema>>

\* Error::error_schema of some type is asked for.
ErrorSchema ==
    /\ schema = None
    /\ \E ty \in ErrorTypes :
          schema' = Some([ty |-> ty, out |-> error_schema(ty)])
    /\ UNCHANGED <<service_vars, router_vars, out_vars, conc_vars,
                   clone_vars,
                   err, err_status, wire, decoded>>

\* The values are dropped.
Forget ==
    /\ IsSome(err) \/ IsSome(wire) \/ IsSome(schema)
    /\ err' = None
    /\ err_status' = None
    /\ wire' = None
    /\ decoded' = None
    /\ schema' = None
    /\ UNCHANGED <<service_vars, router_vars, out_vars, conc_vars,
                 clone_vars>>

InitError ==
    /\ config = [max_request_length |-> None, request_read_timeout |-> None]
    /\ ServiceIdle
    /\ TaxonomyIdle
    /\ RouterIdle
    /\ OutIdle
    /\ ConcurrentIdle
    /\ CloneIdle

NextError ==
    \/ NewError
    \/ Status
    \/ Serialize
    \/ Inbound
    \/ Deserialize
    \/ ErrorSchema
    \/ Forget

SpecError == InitError /\ [][NextError]_vars

\* ============================================================== router
\* Apps a router is generated for.
Apps == {"app", "other_app"}

\* Most middlewares given to one router.
MaxLayers == 2

\* Router::with consumes the router and gives the composed one.
With(middleware) ==
    /\ dispatched = None
    /\ Len(built.middlewares) < MaxLayers
    /\ router' = with(router, middleware)
    /\ built' = [built EXCEPT !.middlewares = Append(@, middleware)]
    /\ UNCHANGED <<service_vars, taxonomy_vars, out_vars, conc_vars,
                   clone_vars, dispatched>>

\* Router::call with a request the original handler answers with `r`.
RouterCall(r) ==
    /\ dispatched = None
    /\ dispatched' = Some(router_call(router, r))
    /\ UNCHANGED <<service_vars, taxonomy_vars, out_vars, conc_vars,
                   clone_vars, router, built>>

\* The caller has the answer; the router serves the next request.
RouterReturn ==
    /\ IsSome(dispatched)
    /\ dispatched' = None
    /\ UNCHANGED <<service_vars, taxonomy_vars, out_vars, conc_vars,
                   clone_vars, router, built>>

InitRouter ==
    /\ config = [max_request_length |-> None, request_read_timeout |-> None]
    /\ ServiceIdle
    /\ TaxonomyIdle
    /\ OutIdle
    /\ ConcurrentIdle
    /\ CloneIdle
    /\ \E app \in Apps :
          /\ router = Router(app, BaseHandler)
          /\ built = [app |-> app, middlewares |-> <<>>]
    /\ dispatched = None

NextRouter ==
    \/ \E middleware \in Middlewares : With(middleware)
    \/ \E r \in HandlerResults : RouterCall(r)
    \/ RouterReturn

SpecRouter == InitRouter /\ [][NextRouter]_vars

\* The service of a router whose handler is wrapped by the header-appending
\* middleware, alone or with another layer inside or outside it
\* (Router::run, router.rs:79-83).
HeaderRouters ==
    LET r0 == Router("app", BaseHandler)
    IN {with(r0, "append_header"),
        with(with(r0, "append_header"), "m1"),
        with(with(r0, "m1"), "append_header")}

InitMiddleware ==
    /\ config = [max_request_length |-> Some(1),
                 request_read_timeout |-> Some("T")]
    /\ ServiceIdle
    /\ TaxonomyIdle
    /\ OutIdle
    /\ ConcurrentIdle
    /\ CloneIdle
    /\ router \in HeaderRouters
    /\ built = [app |-> "app", middlewares |-> <<>>]
    /\ dispatched = None

SpecMiddleware == InitMiddleware /\ [][Next]_vars

\* =========================================================== OutBuffer
\* Most HttpBody calls the transport makes on one buffer.
MaxCalls == 4

\* A response body is made: From<String>, or OutBuffer::empty.
OutNew ==
    /\ out_buffer = None
    /\ \E s \in OutStrings :
          /\ out_buffer' = Some(IF s = "" THEN OutBufferEmpty
                                ELSE OutBufferFrom(s))
          /\ payload' = s
    /\ log' = <<>>
    /\ UNCHANGED <<service_vars, taxonomy_vars, router_vars, conc_vars,
                   clone_vars>>

Logged(call, ret) == [call |-> call, ret |-> ret]

PollData ==
    /\ IsSome(out_buffer)
    /\ Len(log) < MaxCalls
    /\ out_buffer' = Some(poll_data(Unwrap(out_buffer)).self)
    /\ log' = Append(log,
                     Logged("poll_data", poll_data(Unwrap(out_buffer)).ret))
    /\ UNCHANGED <<service_vars, taxonomy_vars, router_vars, conc_vars,
                   clone_vars, payload>>

PollTrailers ==
    /\ IsSome(out_buffer)
    /\ Len(log) < MaxCalls
    /\ out_buffer' = Some(poll_trailers(Unwrap(out_buffer)).self)
    /\ log' = Append(log,
                     Logged("poll_trailers",
                            poll_trailers(Unwrap(out_buffer)).ret))
    /\ UNCHANGED <<service_vars, taxonomy_vars, router_vars, conc_vars,
                   clone_vars, payload>>

IsEndStream ==
    /\ IsSome(out_buffer)
    /\ Len(log) < MaxCalls
    /\ log' = Append(log, Logged("is_end_stream",
                                 is_end_stream(Unwrap(out_buffer))))
    /\ UNCHANGED <<service_vars, taxonomy_vars, router_vars, conc_vars,
                   clone_vars, out_buffer,
                   payload>>

\* The transport drops the buffer.
OutDrop ==
    /\ IsSome(out_buffer)
    /\ out_buffer' = None
    /\ payload' = ""
    /\ log' = <<>>
    /\ UNCHANGED <<service_vars, taxonomy_vars, router_vars, conc_vars,
                   clone_vars>>

InitOut ==
    /\ config = [max_request_length |-> None, request_read_timeout |-> None]
    /\ ServiceIdle
    /\ TaxonomyIdle
    /\ RouterIdle
    /\ OutIdle
    /\ ConcurrentIdle
    /\ CloneIdle

NextOut ==
    \/ OutNew
    \/ PollData
    \/ PollTrailers
    \/ IsEndStream
    \/ OutDrop

SpecOut == InitOut /\ [][NextOut]_vars

\* ================================================== concurrent requests
\* Requests the transport sends while others are in flight: a body that is
\* read to its end, one whose source stalls, one whose read fails, a POST
\* and an unsupported method.
ConcurrentRequests ==
    {[parts |-> [method |-> "GET", content_length |-> Some(<<49>>)],
      body |-> [data |-> <<104>>, fin |-> "end"]],
     [parts |-> [method |-> "DELETE", content_length |-> Some(<<50>>)],
      body |-> [data |-> <<195, 169>>, fin |-> "stall"]],
     [parts |-> [method |-> "HEAD", content_length |-> Some(<<49>>)],
      body |-> [data |-> <<104>>, fin |-> "error"]],
     [parts |-> [method |-> "POST", content_length |-> None],
      body |-> [data |-> <<104>>, fin |-> "end"]],
     [parts |-> [method |-> "TRACE", content_length |-> None],
      body |-> [data |-> <<>>, fin |-> "end"]]}

\* What the handler answers to them.
ConcurrentResults ==
    {[ok |-> TRUE, resp |-> Response(200, {}, "ok")],
     [ok |-> FALSE, error |-> "handler fault"]}

\* Mutant of buf_cell: all futures keep their `buf` in one cell of the
\* service.
buf_cell_shared(i) == 1

\* service.rs:168: `let mut buf = Bytes::new()` inside the async block; the
\* buffer of request i is a local of its own future.
buf_cell(i) == i

\* parse_request returns `r` to the async block of the future `f`.
Returned(f, r) == [f EXCEPT !.slot = Some(r), !.pc = "dispatch"]

\* One step of a future of Service::call (service.rs:166-172, 177-235): the
\* futures and buffers it can be in next, given the service's Config, its
\* own state `f` and the contents `b` of its buffer.
poll(conf, f, b) ==
    CASE f.pc = "method_gate" ->
            LET m == SupportedMethodNew(f.parts.method)
            IN IF IsSome(m)
               THEN {<<[f EXCEPT !.method = m, !.pc = "body_exemption"], b>>}
               ELSE {<<Returned(f, Err(MethodNotAllowed(SupportedMethodIter))),
                       b>>}
      [] f.pc = "body_exemption" ->
            IF ~request_has_body(Unwrap(f.method))
            THEN {<<Returned(f, Ok(<<>>)), b>>}
            ELSE {<<[f EXCEPT !.pc = "length"], b>>}
      [] f.pc = "length" ->
            LET n == content_length_of(f.parts.content_length)
            IN IF IsSome(n)
               THEN {<<[f EXCEPT !.content_length = n, !.pc = "max_length"],
                       b>>}
               ELSE {<<Returned(f, Err(LengthRequired)), b>>}
      [] f.pc = "max_length" ->
            IF exceeds_max(Unwrap(f.content_length), conf)
            THEN {<<Returned(f, Err(PayloadTooLarge)), b>>}
            ELSE {<<[f EXCEPT !.pc = "read",
                              !.timer = IF IsSome(conf.request_read_timeout)
                                        THEN "armed" ELSE "none"], b>>}
      [] f.pc = "read" ->
            (IF Len(f.acc) < Len(f.body.data)
             THEN {<<[f EXCEPT !.acc = Append(@, f.body.data[Len(f.acc) + 1]),
                               !.reads = @ + 1], b>>}
             ELSE {})
            \cup
            (IF Len(f.acc) = Len(f.body.data) /\ f.body.fin = "end"
             THEN {<<[f EXCEPT !.reads = @ + 1, !.acc = <<>>,
                               !.timer = "none", !.pc = "utf8"], f.acc>>}
             ELSE {})
            \cup
            (IF Len(f.acc) = Len(f.body.data) /\ f.body.fin = "error"
             THEN {<<[Returned(f, Err(Other(INTERNAL_SERVER_ERROR,
                                            Some("io error"))))
                         EXCEPT !.reads = @ + 1, !.acc = <<>>,
                                !.timer = "none"], b>>}
             ELSE {})
            \cup
            (IF f.timer = "armed"
             THEN {<<[Returned(f, Err(RequestTimeout))
                         EXCEPT !.timer = "elapsed", !.acc = <<>>],
                     buf_after_timeout(f.acc, b)>>}
             ELSE {})
      [] f.pc = "utf8" -> {<<Returned(f, validate(b)), b>>}
      [] f.pc = "dispatch" -> {<<[f EXCEPT !.pc = "handler"], b>>}
      [] f.pc = "handler" ->
            {<<[f EXCEPT !.handler_ret =
                            Some(invoke(router.handler, router.app, r).ret),
                         !.result =
                            Some(encode(invoke(router.handler, router.app,
                                               r).ret)),
                         !.pc = "done"], b>> : r \in ConcurrentResults}
      [] OTHER -> {}

\* Service::call (service.rs:162-169): request i arrives; its future gets
\* the parts, the body and an empty buffer of its own.
Accept(i) ==
    /\ futures[i].pc = "idle"
    /\ \E q \in ConcurrentRequests :
          futures' = [futures EXCEPT
                         ![i] = [NoFuture EXCEPT !.pc = "method_gate",
                                                 !.parts = q.parts,
                                                 !.body = q.body]]
    /\ bufs' = [bufs EXCEPT ![buf_cell(i)] = <<>>]
    /\ UNCHANGED <<service_vars, taxonomy_vars, router_vars, out_vars,
                   clone_vars>>

\* The executor polls the future of request i.
Poll(i) ==
    /\ futures[i].pc \notin {"idle", "done"}
    /\ \E nxt \in poll(config, futures[i], bufs[buf_cell(i)]) :
          /\ futures' = [futures EXCEPT ![i] = nxt[1]]
          /\ bufs' = [bufs EXCEPT ![buf_cell(i)] = nxt[2]]
    /\ UNCHANGED <<service_vars, taxonomy_vars, router_vars, out_vars,
                   clone_vars>>

\* The connection of request i goes away: its future is dropped at a
\* suspension point, with the buffer it owns.
Cancel(i) ==
    /\ futures[i].pc \in {"read", "handler"}
    /\ futures' = [futures EXCEPT ![i] = NoFuture]
    /\ bufs' = [bufs EXCEPT ![buf_cell(i)] = <<>>]
    /\ UNCHANGED <<service_vars, taxonomy_vars, router_vars, out_vars,
                   clone_vars>>

\* The caller has taken the result of request i; its future is dropped.
Finish(i) ==
    /\ futures[i].pc = "done"
    /\ futures' = [futures EXCEPT ![i] = NoFuture]
    /\ bufs' = [bufs EXCEPT ![buf_cell(i)] = <<>>]
    /\ UNCHANGED <<service_vars, taxonomy_vars, router_vars, out_vars,
                   clone_vars>>

InitConcurrent ==
    /\ config = [max_request_length |-> Some(2),
                 request_read_timeout |-> Some("T")]
    /\ ServiceIdle
    /\ TaxonomyIdle
    /\ RouterIdle
    /\ OutIdle
    /\ ConcurrentIdle
    /\ CloneIdle

NextConcurrent ==
    \/ \E i \in Reqs : Accept(i)
    \/ \E i \in Reqs : Poll(i)
    \/ \E i \in Reqs : Cancel(i)
    \/ \E i \in Reqs : Finish(i)

SpecConcurrent == InitConcurrent /\ [][NextConcurrent]_vars

\* ====================================================== shared values
\* An Arc allocation: the value and its strong count.
ArcInner(value) == [value |-> value, strong |-> 1]

\* Arc::new: a new allocation; `ptr` is its address in the heap.
arc_new(h, value) == [heap |-> Append(h, ArcInner(value)), ptr |-> Len(h) + 1]

\* Mutant of arc_clone: the value is copied into an allocation of its own.
arc_deep_copy(h, ptr) == arc_new(h, h[ptr].value)

\* Arc::clone: one more handle to the same allocation.
arc_clone(h, ptr) == [heap |-> [h EXCEPT ![ptr].strong = @ + 1], ptr |-> ptr]

\* Drop of an Arc handle.
arc_drop(h, ptr) == [h EXCEPT ![ptr].strong = @ - 1]

\* Clone for Router (router.rs:98-103)
router_clone(h, r) ==
    LET app == arc_clone(h, r.app)
    IN [heap |-> app.heap, router |-> Router(app.ptr, r.handler)]

\* Clone for Service (service.rs:249-254)
service_clone(h, s) ==
    LET r == router_clone(h, s.router)
        c == arc_clone(r.heap, s.config)
    IN [heap |-> c.heap, service |-> [router |-> r.router, config |-> c.ptr]]

\* What a handler invocation was handed: by whom, and which allocations and
\* values the app and the configuration of that request were.
Invocation(via, k, h, app, conf) ==
    [via |-> via, service |-> k, app |-> app, app_value |-> h[app].value,
     config |-> conf, config_value |-> h[conf].value]

\* HyperService<&C>::call (service.rs:135-137): a clone of service k for an
\* accepted connection.
MakeService(k) ==
    /\ k \in 1..Len(services)
    /\ Len(services) <= MaxClones
    /\ LET c == service_clone(heap, services[k])
       IN /\ heap' = c.heap
          /\ services' = Append(services, c.service)
    /\ UNCHANGED <<service_vars, taxonomy_vars, router_vars, out_vars,
                   conc_vars, invocations>>

\* Service::call on service k (service.rs:162-172): the future gets a clone
\* of the router and of the Arc<Config>, hands router.app to the handler
\* and drops its handles when it resolves.
ServiceCall(k) ==
    /\ k \in 1..Len(services)
    /\ LET r == router_clone(heap, services[k].router)
           c == arc_clone(r.heap, services[k].config)
       IN /\ invocations' = invocations \cup
                {Invocation("Service::call", k, c.heap, r.router.app, c.ptr)}
          /\ heap' = arc_drop(arc_drop(c.heap, r.router.app), c.ptr)
    /\ UNCHANGED <<service_vars, taxonomy_vars, router_vars, out_vars,
                   conc_vars, services>>

\* Router::call on the router of service k (router.rs:70-77): a clone of
\* the app handle goes to the handler.
RouterCallOn(k) ==
    /\ k \in 1..Len(services)
    /\ LET app == arc_clone(heap, services[k].router.app)
       IN /\ invocations' = invocations \cup
                {Invocation("Router::call", k, app.heap, app.ptr,
                            services[k].config)}
          /\ heap' = arc_drop(app.heap, app.ptr)
    /\ UNCHANGED <<service_vars, taxonomy_vars, router_vars, out_vars,
                   conc_vars, services>>

\* The connection of the last clone closes: its service is dropped.
DropService ==
    /\ Len(services) > 1
    /\ LET s == services[Len(services)]
       IN heap' = arc_drop(arc_drop(heap, s.router.app), s.config)
    /\ services' = SubSeq(services, 1, Len(services) - 1)
    /\ UNCHANGED <<service_vars, taxonomy_vars, router_vars, out_vars,
                   conc_vars, invocations>>

\* Builder::build (service.rs:97-113) on a router whose app is in an Arc:
\* the Config goes into an Arc of its own.
InitClone ==
    /\ config \in Configs
    /\ ServiceIdle
    /\ TaxonomyIdle
    /\ RouterIdle
    /\ OutIdle
    /\ ConcurrentIdle
    /\ LET app == arc_new(<<>>, router.app)
           conf == arc_new(app.heap, config)
       IN /\ heap = conf.heap
          /\ services = <<[router |-> Router(app.ptr, router.handler),
                           config |-> conf.ptr]>>
    /\ invocations = {}

NextClone ==
    \/ \E k \in 1..(MaxClones + 1) : MakeService(k)
    \/ \E k \in 1..(MaxClones + 1) : ServiceCall(k)
    \/ \E k \in 1..(MaxClones + 1) : RouterCallOn(k)
    \/ DropService

SpecClone == InitClone /\ [][NextClone]_vars

\* ================================================================ claims
\* parse_request has returned: the body slot is what the handler is given.
Parsed == pc \in {"dispatch", "handler", "done"}
SlotIsErr(kind) ==
    IsSome(slot) /\ ~Unwrap(slot).ok /\ Unwrap(slot).err.kind = kind

\* The declared length as a reader of the header sees it: the decimal value
\* of a header made of digits only, -1 otherwise.
DeclaredLength(h) ==
    IF IsSome(h) /\ Unwrap(h) # <<>>
          /\ \A i \in 1..Len(Unwrap(h)) : IsDigit(Unwrap(h)[i])
    THEN DigitsValue(Unwrap(h)) ELSE -1

\* C1: a request that reaches length admission with a configured maximum L
\* and a declared Content-Length D > L gets the payload-too-large error
\* (status 413), and its body stream is never polled.
C1_SizeCheckBeforeRead ==
    ( /\ pc \notin {"idle", "method_gate", "body_exemption", "length", "max_length"}
      /\ IsSome(method) /\ request_has_body(Unwrap(method))
      /\ IsSome(config.max_request_length)
      /\ DeclaredLength(parts.content_length) > Unwrap(config.max_request_length) )
    => /\ Parsed
       /\ SlotIsErr("PayloadTooLarge")
       /\ status(Unwrap(slot).err) = 413
       /\ reads = 0
       /\ acc = <<>>
       /\ buf = <<>>

C1_Witness ==
    /\ pc = "done"
    /\ SlotIsErr("PayloadTooLarge")
    /\ DeclaredLength(parts.content_length) = 2
    /\ config.max_request_length = Some(1)
    /\ Len(body.data) = 2
    /\ reads = 0

\* A Content-Length header that is absent, not text, empty, or holds
\* something else than decimal digits after an optional '+'.
NoLength(h) ==
    \/ h = None
    \/ Unwrap(h) = <<>>
    \/ Unwrap(h) = <<43>>
    \/ \E i \in 1..Len(Unwrap(h)) :
          /\ ~IsDigit(Unwrap(h)[i])
          /\ ~(i = 1 /\ Unwrap(h)[1] = 43)

\* C3: for a method that is not skipped at the body-exemption check, a
\* Content-Length that is absent, not text or not a non-negative decimal
\* number yields length-required (411), and the body stream is never polled.
C3_LengthRequired ==
    ( /\ pc \notin {"idle", "method_gate", "body_exemption", "length"}
      /\ IsSome(method) /\ request_has_body(Unwrap(method))
      /\ NoLength(parts.content_length) )
    => /\ Parsed
       /\ SlotIsErr("LengthRequired")
       /\ status(Unwrap(slot).err) = 411
       /\ reads = 0
       /\ acc = <<>>
       /\ buf = <<>>

C3_Witness ==
    /\ pc = "done"
    /\ SlotIsErr("LengthRequired")
    /\ parts.content_length = Some(<<45, 49>>)
    /\ body.data # <<>>
    /\ reads = 0

\* C4: once the read timeout has elapsed the request carries the
\* request-timeout error (408) and nothing of what the read had collected:
\* neither the read's bytes nor the request's buffer survive.  A stalled
\* body under a configured timeout can end in no other way; every request
\* starts on an empty buffer and a body view is always the request's own
\* body.
C4_TimeoutDiscardsPartial ==
    /\ timer = "elapsed"
        => /\ Parsed
           /\ SlotIsErr("RequestTimeout")
           /\ status(Unwrap(slot).err) = 408
           /\ acc = <<>>
           /\ buf = <<>>
    /\ (Parsed /\ timer # "none" /\ body.fin = "stall")
        => SlotIsErr("RequestTimeout")
    /\ pc = "method_gate" => (acc = <<>> /\ buf = <<>> /\ reads = 0)
    /\ (IsSome(slot) /\ Unwrap(slot).ok)
        => Unwrap(slot).text \in {<<>>, body.data}

C4_Witness ==
    /\ pc = "done"
    /\ timer = "elapsed"
    /\ body.fin = "stall"
    /\ Len(body.data) = 2
    /\ reads = 2
    /\ SlotIsErr("RequestTimeout")

\* UTF-8 encoding of a code point below U+0800.
Utf8Encode(cp) ==
    IF cp < 128 THEN <<cp>> ELSE <<192 + (cp \div 64), 128 + (cp % 64)>>

\* Code points whose encodings the bodies of this model can spell:
\* e, h, l, o and U+00E9.
CodePoints == {101, 104, 108, 111, 233}

\* bs is the encoding of a string of code points.
RECURSIVE IsText(_)
IsText(bs) ==
    \/ bs = <<>>
    \/ \E cp \in CodePoints :
          LET e == Utf8Encode(cp)
          IN /\ Len(bs) >= Len(e)
             /\ SubSeq(bs, 1, Len(e)) = e
             /\ IsText(SubSeq(bs, Len(e) + 1, Len(bs)))

\* C5: when the read of a body completes and its bytes are not valid
\* UTF-8, the request carries body-not-UTF8 (400); an Ok(text) body slot
\* holds valid UTF-8 only.
C5_NotUtf8 ==
    /\ (Parsed /\ reads = Len(body.data) + 1 /\ body.fin = "end"
            /\ ~IsText(body.data))
        => /\ SlotIsErr("BodyNotUtf8")
           /\ status(Unwrap(slot).err) = 400
    /\ (IsSome(slot) /\ Unwrap(slot).ok) => IsText(Unwrap(slot).text)

C5_Witness ==
    /\ pc = "done"
    /\ body.data = <<195, 104>>
    /\ buf = <<195, 104>>
    /\ SlotIsErr("BodyNotUtf8")

Supported == {"GET", "POST", "PUT", "DELETE", "HEAD", "OPTIONS", "PATCH"}
Responded == pc = "done" /\ Unwrap(result).ok
TheResponse == Unwrap(result).resp

\* C2: the response to a request whose method is outside the supported set
\* has status 405 and an Allow header equal to ALLOW_HEADER.
C2_MethodNotAllowedResponse ==
    (Responded /\ parts.method \notin Supported)
    => /\ TheResponse.status = 405
       /\ <<"allow", ALLOW_HEADER>> \in TheResponse.headers

\* C6: a GET request with no body and no Content-Length header is
\* dispatched with body slot Ok(""), under every configuration.
C6_GetWithoutLength ==
    ( /\ Parsed
      /\ parts.method = "GET"
      /\ parts.content_length = None
      /\ body = [data |-> <<>>, fin |-> "end"] )
    => slot = Some(Ok(<<>>))

\* C7: for POST, PUT and PATCH a fully delivered valid UTF-8 body b that
\* passes the length checks reaches the handler as Ok(b); so does "hello"
\* with Content-Length 5, no maximum and no timeout.
C7_BodyReachesHandler ==
    ( /\ Parsed
      /\ parts.method \in {"POST", "PUT", "PATCH"}
      /\ DeclaredLength(parts.content_length) >= 0
      /\ ~( /\ IsSome(config.max_request_length)
            /\ DeclaredLength(parts.content_length)
                 > Unwrap(config.max_request_length) )
      /\ config.request_read_timeout = None
      /\ body.fin = "end"
      /\ IsText(body.data) )
    => slot = Some(Ok(body.data))

\* C8: every request is handed to the handler exactly once, with the parse
\* result in its body slot, failed or not; the service call resolves only
\* after that invocation and only to what the handler returned.
C8_ErrorsGoThroughHandler ==
    /\ handler_calls <= 1
    /\ pc \in {"handler", "done"} <=> handler_calls = 1
    /\ pc \in {"handler", "done"} => IsSome(slot)
    /\ IsSome(result) <=> pc = "done"
    /\ IsSome(result) =>
          /\ IsSome(handler_ret)
          /\ Unwrap(result).ok = Unwrap(handler_ret).ok
          /\ Unwrap(result).ok =>
                /\ TheResponse.status = Unwrap(handler_ret).resp.status
                /\ TheResponse.headers = Unwrap(handler_ret).resp.headers
                /\ TheResponse.body.inner = Some(Unwrap(handler_ret).resp.body)

C8_Witness ==
    /\ Responded
    /\ SlotIsErr("PayloadTooLarge")
    /\ handler_calls = 1
    /\ TheResponse.status = 200

\* C9: when the handler fails with an unexpected error, the service call
\* resolves to that error and to no response.
C9_HandlerFaultPropagates ==
    (pc = "done" /\ ~Unwrap(handler_ret).ok)
    => result = Some([ok |-> FALSE, error |-> Unwrap(handler_ret).error])

C9_Witness ==
    /\ pc = "done"
    /\ ~Unwrap(handler_ret).ok
    /\ ~Unwrap(result).ok
    /\ slot = Some(Ok(<<104>>))

EmptyBody(out) == out.inner = None \/ out.inner = Some("")

\* C10: the response to a HEAD request has an empty body and the status
\* and headers the handler produced; for every other supported method the
\* handler's body is passed through unchanged.
C10_HeadHasNoBody ==
    (Responded /\ parts.method \in Supported)
    => /\ TheResponse.status = Unwrap(handler_ret).resp.status
       /\ TheResponse.headers = Unwrap(handler_ret).resp.headers
       /\ IF parts.method = "HEAD"
          THEN EmptyBody(TheResponse.body)
          ELSE TheResponse.body.inner = Some(Unwrap(handler_ret).resp.body)

\* C17: request_has_body is false for GET, DELETE, HEAD and OPTIONS and true
\* for POST, PUT and PATCH, so exactly the POST, PUT and PATCH requests go
\* through length admission, the read and the encoding validation.
C17_RequestHasBody ==
    /\ IsSome(method) =>
          (request_has_body(Unwrap(method))
              <=> parts.method \in {"POST", "PUT", "PATCH"})
    /\ pc \in {"length", "max_length", "read", "utf8"}
          => parts.method \in {"POST", "PUT", "PATCH"}
    /\ (Parsed /\ parts.method \in {"POST", "PUT", "PATCH"})
          => (IsSome(content_length) \/ SlotIsErr("LengthRequired"))

\* The request was admitted to the read: the read is under way, or it has
\* polled the body, or it was cut off by the timeout.
Admitted == pc \in {"read", "utf8"} \/ reads >= 1 \/ timer = "elapsed"

\* C18: payload-too-large only under a configured maximum L and a declared
\* length D > L; D <= L, and any D without a maximum, is admitted to the
\* read; request-timeout only under a configured read timeout.
C18_AbsentBoundIsUnbounded ==
    /\ SlotIsErr("PayloadTooLarge")
          => /\ IsSome(config.max_request_length)
             /\ IsSome(content_length)
             /\ Unwrap(content_length) > Unwrap(config.max_request_length)
    /\ ( /\ IsSome(content_length)
         /\ pc # "max_length"
         /\ \/ config.max_request_length = None
            \/ Unwrap(content_length) <= Unwrap(config.max_request_length) )
          => Admitted /\ ~SlotIsErr("PayloadTooLarge")
    /\ (SlotIsErr("RequestTimeout") \/ timer # "none")
          => IsSome(config.request_read_timeout)

C18_Witness ==
    /\ pc = "done"
    /\ config.max_request_length = Some(2)
    /\ content_length = Some(2)
    /\ config.request_read_timeout = None
    /\ slot = Some(Ok(<<104, 104>>))

\* One step of a request keeps the order method gate, body exemption,
\* Content-Length, maximum, read, validation, dispatch; a step that fails
\* goes straight to dispatch with its own error, nothing later having run.
StepOrder ==
    /\ pc = "method_gate" =>
          \/ pc' = "body_exemption"
          \/ /\ pc' = "dispatch"
             /\ parts.method \notin Supported
             /\ SlotIsErr("MethodNotAllowed")'
             /\ content_length' = None /\ reads' = 0
    /\ pc = "body_exemption" =>
          \/ pc' = "length"
          \/ pc' = "dispatch" /\ slot' = Some(Ok(<<>>))
                /\ content_length' = None /\ reads' = 0
    /\ pc = "length" =>
          \/ pc' = "max_length" /\ IsSome(content_length')
          \/ pc' = "dispatch" /\ SlotIsErr("LengthRequired")'
                /\ content_length' = None /\ reads' = 0
    /\ pc = "max_length" =>
          \/ pc' = "read"
          \/ pc' = "dispatch" /\ SlotIsErr("PayloadTooLarge")' /\ reads' = 0
    /\ pc = "read" =>
          \/ pc' = "read"
          \/ pc' = "utf8" /\ slot' = None
          \/ pc' = "dispatch" /\ buf' = <<>>
                /\ (SlotIsErr("RequestTimeout")' \/ SlotIsErr("Other")')
    /\ pc = "utf8" =>
          /\ pc' = "dispatch"
          /\ slot' = Some(Ok(buf)) \/ SlotIsErr("BodyNotUtf8")'
    /\ pc = "dispatch" => (pc' = "handler" /\ slot' = slot)
    /\ pc' = "handler" => (pc = "dispatch" /\ IsSome(slot))
    /\ parts.method \notin Supported =>
          pc' \notin {"body_exemption", "length", "max_length", "read", "utf8"}

\* C20: the steps of a request run strictly in the order of the pipeline
\* and the first failing step determines the error.
C20_StepsInOrder == [][StepOrder]_vars

C20_Witness ==
    /\ pc = "done"
    /\ parts.method = "TRACE"
    /\ parts.content_length = Some(<<53>>)
    /\ config.max_request_length = Some(1)
    /\ SlotIsErr("MethodNotAllowed")
    /\ reads = 0

\* The fixed status of each closed error kind.
FixedStatus ==
    [NotFound |-> 404, MethodNotAllowed |-> 405, RequestTimeout |-> 408,
     LengthRequired |-> 411, PayloadTooLarge |-> 413,
     UnsupportedMediaType |-> 415, BodyNotUtf8 |-> 400,
     InvalidParameter |-> 400]

\* C11: status() answers for every error value, with the fixed status of
\* its kind whatever else the value carries, and for the open variant with
\* the status the value carries.
C11_StatusMapping ==
    (IsSome(err) /\ IsSome(err_status))
    => LET e == Unwrap(err)
       IN Unwrap(err_status) =
             IF e.kind = "Other" THEN e.status ELSE FixedStatus[e.kind]

C11_Witness ==
    /\ IsSome(err)
    /\ Unwrap(err).kind = "InvalidParameter"
    /\ Unwrap(err).query # <<>>
    /\ Unwrap(err).header # <<>>
    /\ err_status = Some(400)

\* C12: a type-erased error that is serialized and deserialized comes back
\* with the same status and with a cause that displays as the original
\* cause did (no cause stays no cause); the cause itself comes back as a
\* plain message.
C12_RoundTrip ==
    (IsSome(err) /\ IsSome(wire) /\ IsSome(decoded))
    => LET e == Unwrap(err)
           d == Unwrap(decoded)
       IN /\ d.ok
          /\ d.value.status = e.status
          /\ IsSome(d.value.error) <=> IsSome(e.error)
          /\ IsSome(e.error) =>
                /\ to_string(Unwrap(d.value.error)) = to_string(Unwrap(e.error))
                /\ Unwrap(d.value.error).type = "String"

C12_Witness ==
    /\ err = Some(Other(418, Some(BoxString("teapot"))))
    /\ IsSome(wire)
    /\ decoded = Some([ok |-> TRUE,
                       value |-> DynError(418, Some(BoxString("teapot")))])

\* C13: deserializing a wire envelope fails, and yields no envelope, exactly
\* when its status is outside 100..999; the documented example is accepted.
C13_StatusValidated ==
    IsSome(decoded)
    => LET w == Unwrap(wire)
           d == Unwrap(decoded)
       IN /\ d.ok <=> (w.status >= 100 /\ w.status <= 999)
          /\ d.ok => d.value.status = w.status
          /\ ~d.ok => "value" \notin DOMAIN d
          /\ w = DynErrorSchema.example => d.ok

C13_Witness ==
    /\ wire = Some([status |-> 9999, error |-> None])
    /\ IsSome(decoded)
    /\ ~Unwrap(decoded).ok

\* C19: every error-producing type yields an error schema without failing,
\* with either a default schema or a non-empty status-to-schema map, never
\* both and never neither; in the map form the status of the type's values
\* is a key of the map.
C19_ErrorSchema ==
    IsSome(schema)
    => LET got == Unwrap(schema).out
       IN /\ got.ok
          /\ IsSome(got.default_schema) <=> got.schemas = {}
          /\ Unwrap(schema).ty = "String" =>
                \E kv \in got.schemas : kv[1] = string_status("foobar")

\* The events a dispatch goes through when the middlewares `ms` were given
\* to `with` in this order: the last given is entered first and left last.
ExpectedTrace(ms) ==
    LET n == Len(ms)
    IN [i \in 1..(2 * n + 1) |->
          IF i <= n THEN Event("enter", ms[n + 1 - i])
          ELSE IF i = n + 1 THEN Event("handler", "base")
          ELSE Event("exit", ms[i - n - 1])]

\* C14: with(middleware) keeps the app and wraps the handler, outermost
\* last: a dispatch on r.with(m1).with(m2) enters m2, then m1, then the
\* original handler, which is given the router's app, and the answer
\* passes back through m1 and then m2.
C14_WithComposes ==
    /\ router.app = built.app
    /\ IsSome(dispatched) =>
          /\ Unwrap(dispatched).trace = ExpectedTrace(built.middlewares)
          /\ Unwrap(dispatched).app = built.app

C14_Witness ==
    /\ built.middlewares = <<"m1", "m2">>
    /\ built.app = "other_app"
    /\ IsSome(dispatched)
    /\ Unwrap(dispatched).trace
         = <<Event("enter", "m2"), Event("enter", "m1"),
             Event("handler", "base"),
             Event("exit", "m1"), Event("exit", "m2")>>

\* C15: when the handler is wrapped by the header-appending middleware,
\* every response the service returns carries the fixed header, whatever
\* the body slot was.
C15_HeaderOnEveryResponse ==
    Responded => FixedHeader \in TheResponse.headers

C15_Witness ==
    /\ Responded
    /\ SlotIsErr("RequestTimeout")
    /\ router.handler # BaseHandler
    /\ FixedHeader \in TheResponse.headers

\* The poll_data calls among the first k calls of the log.
PollsBefore(k) == {j \in 1..(k - 1) : log[j].call = "poll_data"}

RECURSIVE JoinDisplay(_)
JoinDisplay(ms) ==
    IF ms = <<>> THEN ""
    ELSE IF Len(ms) = 1 THEN Display(ms[1])
    ELSE Display(ms[1]) \o ", " \o JoinDisplay(Tail(ms))

\* C21: the method-not-allowed error handed to the handler carries the
\* seven supported methods once each in the order GET, POST, PUT, DELETE,
\* HEAD, OPTIONS, PATCH; their display names joined with ", " are
\* ALLOW_HEADER.
C21_AllowedIsFullList ==
    /\ (Parsed /\ parts.method \notin Supported) => SlotIsErr("MethodNotAllowed")
    /\ SlotIsErr("MethodNotAllowed") =>
          LET allowed == Unwrap(slot).err.allowed
          IN /\ allowed
                  = <<"Get", "Post", "Put", "Delete", "Head", "Options", "Patch">>
             /\ JoinDisplay(allowed) = ALLOW_HEADER

C21_Witness ==
    /\ pc = "handler"
    /\ parts.method = "TRACE"
    /\ SlotIsErr("MethodNotAllowed")
    /\ Len(Unwrap(slot).err.allowed) = 7

\* The read has met the I/O failure of the body stream.
ReadFailed == body.fin = "error" /\ reads = Len(body.data) + 1

\* C22: an I/O failure of the body read becomes the open error variant
\* with status 500 and the failure as its cause; the handler gets it as Err
\* in the body slot, and the service call resolves to whatever the handler
\* answers, not to the failure.
C22_IoFailureIsOther500 ==
    (pc \in {"dispatch", "handler", "done"} /\ ReadFailed)
    => /\ SlotIsErr("Other")
       /\ Unwrap(slot).err.status = 500
       /\ status(Unwrap(slot).err) = 500
       /\ Unwrap(slot).err.error = Some("io error")
       /\ pc = "done" =>
             /\ handler_calls = 1
             /\ result = Some(encode(Unwrap(handler_ret)))

C22_Witness ==
    /\ Responded
    /\ ReadFailed
    /\ body.data = <<104>>
    /\ SlotIsErr("Other")
    /\ TheResponse.status = 500

\* Methods whose requests carry no body.
Bodyless == {"GET", "DELETE", "HEAD", "OPTIONS"}

\* C23: a request whose method does not require a body reaches the handler
\* with Ok(""); its Content-Length is not parsed, its body stream is never
\* polled and no timeout is started, under every configuration.
C23_BodylessSkipsParsing ==
    (Parsed /\ parts.method \in Bodyless)
    => /\ slot = Some(Ok(<<>>))
       /\ content_length = None
       /\ reads = 0
       /\ timer = "none"

\* C24: with a configured maximum L, a body text handed to the handler as
\* Ok has at most L bytes, whatever the transport delivered.
C24_OkBodyWithinMaximum ==
    (IsSome(slot) /\ Unwrap(slot).ok /\ IsSome(config.max_request_length))
    => Len(Unwrap(slot).text) <= Unwrap(config.max_request_length)

\* The outcomes the future `f` with buffer `b` can resolve to when nothing
\* else runs: the body slot its handler is given and what it resolves to.
RECURSIVE Alone(_, _, _)
Alone(conf, f, b) ==
    IF f.pc = "done"
    THEN {[slot |-> f.slot, result |-> f.result]}
    ELSE UNION {Alone(conf, nxt[1], nxt[2]) : nxt \in poll(conf, f, b)}

\* The future Service::call makes for the request of `f`.
Fresh(f) ==
    [NoFuture EXCEPT !.pc = "method_gate", !.parts = f.parts, !.body = f.body]

\* Every resolved request has an outcome it can have when processed alone,
\* and an Ok body slot holds the bytes of its own body.
OutcomeAsAlone ==
    \A i \in Reqs :
       /\ futures[i].pc = "done" =>
             [slot |-> futures[i].slot, result |-> futures[i].result]
                \in Alone(config, Fresh(futures[i]), <<>>)
       /\ (IsSome(futures[i].slot) /\ Unwrap(futures[i].slot).ok) =>
             Unwrap(futures[i].slot).text \in {<<>>, futures[i].body.data}

\* A request whose own next step exists is never kept from taking it.
NoWaiting ==
    \A i \in Reqs :
       (futures[i].pc \notin {"idle", "done"}
            /\ ~(futures[i].pc = "read" /\ futures[i].timer = "none"
                    /\ futures[i].body.fin = "stall"
                    /\ Len(futures[i].acc) = Len(futures[i].body.data)))
       => ENABLED Poll(i)

\* A step of one request (a poll, a timeout, a cancellation, its arrival or
\* its end) changes nothing of another request: neither the state of its
\* future nor its buffer.
Isolated ==
    \A i \in Reqs :
       futures'[i] # futures[i] =>
          \A j \in Reqs \ {i} :
             /\ futures'[j] = futures[j]
             /\ bufs'[buf_cell(j)] = bufs[buf_cell(j)]

\* C25: under every interleaving of the requests in flight, each request
\* has an outcome it has when processed alone, a step, timeout or
\* cancellation of one request changes nothing of another, and no request
\* waits for another.
C25_RequestsAreIsolated ==
    /\ [](OutcomeAsAlone /\ NoWaiting)
    /\ [][Isolated]_vars

C25_Witness ==
    /\ futures[1].pc = "done"
    /\ futures[1].slot = Some(Err(RequestTimeout))
    /\ futures[1].body.data = <<195, 169>>
    /\ futures[2].pc = "done"
    /\ futures[2].slot = Some(Ok(<<104>>))
    /\ bufs[buf_cell(1)] = <<>>
    /\ bufs[buf_cell(2)] = <<104>>

\* C26: a request whose handler completes reaches a terminal outcome, a
\* response or an error out of the service call, if a read timeout is
\* configured or its body stream ends or fails; with a read timeout a
\* stalled body source does not keep it in the read.
C26_RequestTerminates ==
    /\ (pc = "method_gate"
           /\ (IsSome(config.request_read_timeout) \/ body.fin # "stall"))
         ~> (pc = "done" /\ IsSome(result))
    /\ (pc = "read" /\ timer = "armed") ~> pc # "read"

C26_Witness ==
    /\ pc = "done"
    /\ IsSome(result)
    /\ body = [data |-> <<104>>, fin |-> "stall"]
    /\ reads = 1
    /\ SlotIsErr("RequestTimeout")

\* The allocations Builder::build left: the app and the configuration.
AppArc == arc_new(<<>>, router.app).ptr
ConfigArc == arc_new(<<ArcInner(router.app)>>, config).ptr

\* Every service, clone or not, refers to the one app and the one
\* configuration; these hold what they held when the service was built, no
\* other allocation exists, and that is what every handler invocation got.
SharedNotCopied ==
    /\ Len(heap) = 2
    /\ heap[AppArc].value = router.app
    /\ heap[ConfigArc].value = config
    /\ \A k \in 1..Len(services) :
          /\ services[k].router.app = AppArc
          /\ services[k].config = ConfigArc
          /\ services[k].router.handler = router.handler
    /\ \A c \in invocations :
          /\ c.app = AppArc /\ c.app_value = router.app
          /\ c.config = ConfigArc /\ c.config_value = config

\* A dispatch leaves the services and their routers as they were.
DispatchKeepsRouter == invocations' # invocations => services' = services

\* C27: cloning a router or a service, dispatching and serving requests
\* never copy or change the app or the configuration: every clone and
\* every handler invocation refers to the one app instance and to the
\* configuration fixed at build time, and a dispatch leaves the router it
\* was called on unchanged.
C27_AppAndConfigShared ==
    /\ []SharedNotCopied
    /\ [][DispatchKeepsRouter]_vars

C27_Witness ==
    /\ Len(services) = 3
    /\ heap[AppArc].strong = 3
    /\ heap[ConfigArc].strong = 3
    /\ \E c \in invocations : c.via = "Service::call" /\ c.service = 3
    /\ \E c \in invocations : c.via = "Router::call" /\ c.service = 2

====
